---------------------------- MODULE Spec2Model ----------------------------
(***************************************************************************)
(* Transient circuit simulator (src/src/bipoles.rs): the circuit builder,  *)
(* the MNA assembler, the fixed-count nonlinear iteration and the transient*)
(* driver, as a state machine over exact rational arithmetic; and the      *)
(* drawing program that builds the circuit (src/src/main.rs, UiData).      *)
(*                                                                         *)
(* Numbers.  An f64 is modelled as an exact rational <<n, d>> (d > 0, in   *)
(* lowest terms) or as the single absorbing value NonFinite, which stands  *)
(* for +inf, -inf and NaN.  Rounding of finite values is modelled only in  *)
(* SpecRounded, where the assembly rounds to a short significand, and in   *)
(* SpecRepeated, where the arguments of simulate are numbers of that       *)
(* format.                                                                 *)
(*                                                                         *)
(* Specifications.  Spec: add_bipole calls from a catalogue, then one      *)
(* simulate.  SpecTests, SpecTransient: the circuits of the repository's   *)
(* tests.  SpecRepeated: two simulate calls in a row.  SpecUi: the         *)
(* commands of the drawing program.                                        *)
(***************************************************************************)
EXTENDS Integers, Sequences, FiniteSets, TLC

----------------------------------------------------------------------------
(* f64 arithmetic *)

NonFinite == <<0, 0>>

Abs(n) == IF n < 0 THEN -n ELSE n

RECURSIVE GCD(_, _)
GCD(a, b) == IF b = 0 THEN a ELSE GCD(b, a % b)

Norm(n, d) ==
    IF d = 0 THEN NonFinite
    ELSE LET s == IF d < 0 THEN -1 ELSE 1
             g == GCD(Abs(n), Abs(d))
         IN  <<s * (n \div g), (s * d) \div g>>

Rat(n, d) == Norm(n, d)

Zero == <<0, 1>>
One == <<1, 1>>

IsFinite(a) == a[2] # 0

RAdd(a, b) ==
    IF ~IsFinite(a) \/ ~IsFinite(b) THEN NonFinite
    ELSE LET g == GCD(a[2], b[2])
         IN  Norm(a[1] * (b[2] \div g) + b[1] * (a[2] \div g), (a[2] \div g) * b[2])

RNeg(a) == IF IsFinite(a) THEN <<-a[1], a[2]>> ELSE NonFinite

RSub(a, b) == RAdd(a, RNeg(b))

RMul(a, b) ==
    IF ~IsFinite(a) \/ ~IsFinite(b) THEN NonFinite
    ELSE LET g1 == GCD(Abs(a[1]), b[2])
             g2 == GCD(Abs(b[1]), a[2])
         IN  Norm((a[1] \div g1) * (b[1] \div g2), (a[2] \div g2) * (b[2] \div g1))

\* x / 0 is +inf, -inf or NaN in f64: non-finite in every case
RDiv(a, b) ==
    IF ~IsFinite(a) \/ ~IsFinite(b) \/ b[1] = 0 THEN NonFinite
    ELSE RMul(a, IF b[1] < 0 THEN <<-b[2], -b[1]>> ELSE <<b[2], b[1]>>)

\* floor of a finite value
RFloor(a) == a[1] \div a[2]

\* a conversion that rounds to the nearest integer
AsUsizeRounded(a) == IF ~IsFinite(a) \/ a[1] < 0 THEN 0 ELSE (2 * a[1] + a[2]) \div (2 * a[2])

\* `x as usize`: truncation toward zero; negative values and NaN give 0 (the
\* quotients formed from the arguments drawn below are finite)
AsUsize(a) == IF ~IsFinite(a) \/ a[1] < 0 THEN 0 ELSE RFloor(a)

----------------------------------------------------------------------------
(* Matrix<f64>, Vector<f64> and the linear solve.                          *)
(* A vector of length n is a function on 0..n-1, a matrix a function on    *)
(* 0..n-1 of such rows.                                                    *)

ZeroVector(n) == [i \in 0..(n - 1) |-> Zero]

ZeroMatrix(n) == [i \in 0..(n - 1) |-> [j \in 0..(n - 1) |-> Zero]]

AllFinite(A, b, n) ==
    /\ \A i \in 0..(n - 1) : IsFinite(b[i])
    /\ \A i \in 0..(n - 1) : \A j \in 0..(n - 1) : IsFinite(A[i][j])

Augment(A, b, n) ==
    [i \in 0..(n - 1) |-> [j \in 0..n |-> IF j < n THEN A[i][j] ELSE b[i]]]

\* one elimination step on column col with pivot row p moved to position row
Pivot(M, n, col, row, p) ==
    LET piv == [j \in 0..n |-> RDiv(M[p][j], M[p][col])]
        Src(i) == IF i = row THEN p ELSE IF i = p THEN row ELSE i
    IN  [i \in 0..(n - 1) |->
            IF i = row THEN piv
            ELSE LET r == M[Src(i)]
                 IN  IF r[col] = Zero THEN r
                     ELSE [j \in 0..n |-> RSub(r[j], RMul(r[col], piv[j]))]]

\* reduced row echelon form; pivs[k] is the pivot column of row k-1
RECURSIVE Reduce(_, _, _, _)
Reduce(M, n, col, pivs) ==
    IF col = n \/ Len(pivs) = n THEN [M |-> M, pivs |-> pivs]
    ELSE LET row == Len(pivs)
             cands == {i \in row..(n - 1) : M[i][col] # Zero}
         IN  IF cands = {} THEN Reduce(M, n, col + 1, pivs)
             ELSE LET p == CHOOSE i \in cands : \A k \in cands : i <= k
                  IN  Reduce(Pivot(M, n, col, row, p), n, col + 1, Append(pivs, col))

(* The contract of mathru's Solve::solve for A x = b.  The nodal matrix    *)
(* keeps the ground row and column, so the node potentials are determined  *)
(* up to a common offset: when exactly one unknown is free the solver      *)
(* returns the solution in which that unknown takes the value t (which one *)
(* it returns depends on the factorization, so t is the caller's choice).  *)
(* An inconsistent system, or one with more than one free unknown, is      *)
(* reported as Err.  A non-finite entry makes the whole result non-finite. *)
Solve(A, b, n, t) ==
    IF ~AllFinite(A, b, n) THEN [ok |-> TRUE, x |-> [i \in 0..(n - 1) |-> NonFinite]]
    ELSE
    LET red == Reduce(Augment(A, b, n), n, 0, <<>>)
        M == red.M
        rank == Len(red.pivs)
        pivcols == {red.pivs[k] : k \in 1..rank}
        free == (0..(n - 1)) \ pivcols
        consistent == \A i \in rank..(n - 1) : M[i][n] = Zero
        RowOf(j) == CHOOSE k \in 1..rank : red.pivs[k] = j
    IN  IF ~consistent \/ Cardinality(free) > 1 THEN [ok |-> FALSE, x |-> <<>>]
        ELSE [ok |-> TRUE,
              x |-> [j \in 0..(n - 1) |->
                        IF j \in free THEN t
                        ELSE LET r == M[RowOf(j) - 1]
                             IN  IF free = {} THEN r[n]
                                 ELSE LET f == CHOOSE f \in free : TRUE
                                      IN  RSub(r[n], RMul(r[f], t))]]

----------------------------------------------------------------------------
(* f64::sin and f64::exp *)

\* sin(2*pi*q) for q in turns: exact at the quarter turns, linear in between
SinTurns(q) ==
    IF ~IsFinite(q) THEN NonFinite
    ELSE LET x == RMul(Rat(4, 1), q)
             n == RFloor(x)
             Quarter(k) == CASE k % 4 = 0 -> Zero
                             [] k % 4 = 1 -> One
                             [] k % 4 = 2 -> Zero
                             [] OTHER -> Rat(-1, 1)
             frac == RSub(x, Rat(n, 1))
         IN  RAdd(Quarter(n), RMul(frac, RSub(Quarter(n + 1), Quarter(n))))

\* exp overflows to +inf above ExpMax and underflows to 0 below -ExpMax
ExpMax == 4

RECURSIVE Pow2(_)
Pow2(n) == IF n = 0 THEN 1 ELSE 2 * Pow2(n - 1)

(* exp, in base 2 (the thermal voltage of the model absorbs ln 2): exact at *)
(* the integers, linear in between; positive, increasing and convex        *)
Exp(x) ==
    IF ~IsFinite(x) THEN NonFinite
    ELSE LET n == RFloor(x)
             frac == RSub(x, Rat(n, 1))
         IN  IF n >= ExpMax THEN NonFinite
             ELSE IF n < -ExpMax THEN Zero
             ELSE RMul(IF n >= 0 THEN Rat(Pow2(n), 1) ELSE Rat(1, Pow2(-n)),
                       RAdd(One, frac))

----------------------------------------------------------------------------
(* The element library: Model and the BipoleBehaviour implementations *)

ConduttanceCurrentSource(g, i) ==
    [tag |-> "ConduttanceCurrentSource", conduttance |-> g, current |-> i]

VoltageSourceModel(v) == [tag |-> "VoltageSource", value |-> v]

Resistor(resistance) == [kind |-> "Resistor", resistance |-> resistance]

CurrentSource(value) == [kind |-> "CurrentSource", value |-> value]

VoltageSource(value) == [kind |-> "VoltageSource", value |-> value]

SinusoidalVoltageSource(value, frequency_hz) ==
    [kind |-> "SinusoidalVoltageSource", value |-> value, frequency_hz |-> frequency_hz]

Capacitor(capacitance, initial_voltage) ==
    [kind |-> "Capacitor", capacitance |-> capacitance, current_voltage |-> initial_voltage]

Inductor(induttance, initial_i) ==
    [kind |-> "Inductor", induttance |-> induttance, current_i |-> initial_i]

Diode(current_s, voltage_vt, current_i, current_v) ==
    [kind |-> "Diode", current_s |-> current_s, voltage_vt |-> voltage_vt,
     current_i |-> current_i, current_v |-> current_v]

is_dynamic(e) == e.kind \in {"Capacitor", "Inductor"}

is_nonlinear(e) == e.kind = "Diode"

DiodeConduttance(e) ==
    RMul(RDiv(e.current_s, e.voltage_vt), Exp(RDiv(e.current_v, e.voltage_vt)))

\* the companion with timestep/capacitance for the capacitor's conductance
linear_companion_inverted_capacitor(e, timestep_sec, current_time_sec) ==
    CASE e.kind = "Resistor" ->
            ConduttanceCurrentSource(RDiv(One, e.resistance), Zero)
      [] e.kind = "CurrentSource" ->
            ConduttanceCurrentSource(Zero, e.value)
      [] e.kind = "VoltageSource" ->
            VoltageSourceModel(e.value)
      [] e.kind = "SinusoidalVoltageSource" ->
            VoltageSourceModel(RMul(e.value, SinTurns(RMul(e.frequency_hz, current_time_sec))))
      [] e.kind = "Capacitor" ->
            ConduttanceCurrentSource(
                RDiv(timestep_sec, e.capacitance),
                RDiv(RMul(RNeg(e.current_voltage), e.capacitance), timestep_sec))
      [] e.kind = "Inductor" ->
            ConduttanceCurrentSource(RDiv(timestep_sec, e.induttance), RNeg(e.current_i))
      [] e.kind = "Diode" ->
            LET equivalent_conduttance == DiodeConduttance(e)
            IN  ConduttanceCurrentSource(
                    equivalent_conduttance,
                    RSub(e.current_i, RMul(equivalent_conduttance, e.current_v)))

linear_companion(e, timestep_sec, current_time_sec) ==
    CASE e.kind = "Resistor" ->
            ConduttanceCurrentSource(RDiv(One, e.resistance), Zero)
      [] e.kind = "CurrentSource" ->
            ConduttanceCurrentSource(Zero, e.value)
      [] e.kind = "VoltageSource" ->
            VoltageSourceModel(e.value)
      [] e.kind = "SinusoidalVoltageSource" ->
            VoltageSourceModel(RMul(e.value, SinTurns(RMul(e.frequency_hz, current_time_sec))))
      [] e.kind = "Capacitor" ->
            ConduttanceCurrentSource(
                RDiv(e.capacitance, timestep_sec),
                RDiv(RMul(RNeg(e.current_voltage), e.capacitance), timestep_sec))
      [] e.kind = "Inductor" ->
            ConduttanceCurrentSource(RDiv(timestep_sec, e.induttance), RNeg(e.current_i))
      [] e.kind = "Diode" ->
            LET equivalent_conduttance == DiodeConduttance(e)
            IN  ConduttanceCurrentSource(
                    equivalent_conduttance,
                    RSub(e.current_i, RMul(equivalent_conduttance, e.current_v)))

\* update_state with the capacitor keeping the voltage it had
update_state_keeping_capacitor(e, anode_tension, catode_tension, timestep_sec) ==
    CASE e.kind = "Inductor" ->
            LET equivalent_conduttance == RDiv(timestep_sec, e.induttance)
            IN  [e EXCEPT !.current_i =
                    RAdd(RMul(RSub(anode_tension, catode_tension), equivalent_conduttance),
                         e.current_i)]
      [] OTHER -> e

update_state(e, anode_tension, catode_tension, timestep_sec) ==
    CASE e.kind = "Capacitor" ->
            [e EXCEPT !.current_voltage = RSub(anode_tension, catode_tension)]
      [] e.kind = "Inductor" ->
            LET equivalent_conduttance == RDiv(timestep_sec, e.induttance)
            IN  [e EXCEPT !.current_i =
                    RAdd(RMul(RSub(anode_tension, catode_tension), equivalent_conduttance),
                         e.current_i)]
      [] OTHER -> e

(* The operating point a diode stores has finite resolution: the voltage   *)
(* is kept on a grid of 1/VGrid, which is what lets the fixed-count        *)
(* iteration settle on a value instead of refining it without end.         *)
VGrid == 16

Stored(v) == IF IsFinite(v) THEN Rat(RFloor(RMul(v, Rat(VGrid, 1))), VGrid) ELSE NonFinite

\* update_operating_point with an implementation for the capacitor as well
update_operating_point_with_capacitor(e, anode_tension, catode_tension) ==
    IF e.kind = "Diode"
    THEN LET voltage == Stored(RSub(anode_tension, catode_tension))
         IN  [e EXCEPT !.current_i =
                          RMul(e.current_s, RSub(Exp(RDiv(voltage, e.voltage_vt)), One)),
                       !.current_v = voltage]
    ELSE IF e.kind = "Capacitor"
    THEN [e EXCEPT !.current_voltage = RSub(anode_tension, catode_tension)]
    ELSE e

update_operating_point(e, anode_tension, catode_tension) ==
    IF e.kind = "Diode"
    THEN LET voltage == Stored(RSub(anode_tension, catode_tension))
         IN  [e EXCEPT !.current_i =
                          RMul(e.current_s, RSub(Exp(RDiv(voltage, e.voltage_vt)), One)),
                       !.current_v = voltage]
    ELSE e

\* a reset that restores the current and leaves the voltage where it was
reset_operating_point_current_only(e) ==
    IF e.kind = "Diode" THEN [e EXCEPT !.current_i = Rat(27, 25)] ELSE e

reset_operating_point(e) ==
    IF e.kind = "Diode"
    THEN [e EXCEPT !.current_i = Rat(27, 25), !.current_v = Rat(9, 10)]
    ELSE e

----------------------------------------------------------------------------
(* Bounds of the model and the inputs the caller draws from *)

MaxNode == 2

MaxBipoles == 3

MaxSteps == 2

NodeIds == 0..MaxNode

Half == Rat(1, 2)

\* the add_bipole calls a caller makes: behaviour, anode, catode, name;
\* two calls may carry the same name, node ids need not be contiguous, an
\* element may have both terminals on one node
Calls ==
    { c \in
        { <<VoltageSource(Rat(5, 1)), 1, 0, "a">>,
          <<CurrentSource(One), 0, 1, "a">>,
          <<Resistor(Rat(2, 1)), 1, 0, "b">>,
          <<Resistor(Zero), 1, 0, "b">>,
          <<Resistor(Rat(-2, 1)), 1, 0, "b">>,
          <<Resistor(Rat(2, 1)), 2, 1, "b">>,
          <<Resistor(Zero), 1, 1, "b">>,
          <<Capacitor(One, One), 1, 0, "c">>,
          <<Inductor(One, One), 1, 0, "c">>,
          <<Diode(One, One, Zero, Zero), 1, 0, "c">>,
          <<Resistor(Rat(2, 1)), 1, 0, "c">>,
          <<Capacitor(One, One), 1, 1, "c">>,
          <<VoltageSource(Rat(5, 1)), 2, 0, "d">>,
          <<SinusoidalVoltageSource(Rat(2, 1), Half), 1, 0, "d">> } :
        c[2] \in NodeIds /\ c[3] \in NodeIds }

\* simulate(simulationtime_sec, timestep_sec) is called with these arguments
TimeSteps == {One, Half}

SimulationTimes == {Rat(1, 4), Rat(2 * MaxSteps + 1, 4)}

\* the value the solver gives the one free unknown of a grounded system
FreeValues == {Zero, One}

----------------------------------------------------------------------------
(* State *)

VARIABLES
    \* struct Circuit
    bipoles, dynamic_bipoles, nonlinear_bipoles, ground_id, nodes, voltage_bipoles,
    \* the caller: the add_bipole calls made so far
    calls,
    \* struct UiData, for the caller that is the drawing program
    ui,
    \* Circuit::simulate: arguments, locals and position
    pc, simulationtime_sec, timestep_sec, n_steps, step, out,
    matrix, sources, voltage_bipole_to_current_idx,
    \* Circuit::solve_nonlinear: locals
    sol, n_iterations, iteration,
    \* history: the calls made in the current timestep, the elements as they
    \* were when simulate was called, the output entries assigned so far
    trace, at_call, written

circuit == <<bipoles, dynamic_bipoles, nonlinear_bipoles, ground_id, nodes, voltage_bipoles>>

locals == <<simulationtime_sec, timestep_sec, n_steps, step, out,
            matrix, sources, voltage_bipole_to_current_idx, sol, n_iterations, iteration>>

vars == <<circuit, calls, ui, pc, locals, trace, at_call, written>>

\* number of rows and columns of the system
unknowns == Cardinality(nodes) + Cardinality(voltage_bipoles)

Event(op, name, a, c) == <<op, name, a, c>>

Mark(op) == Event(op, "", Zero, Zero)

\* a set as a sequence, in some order
RECURSIVE SeqOf(_)
SeqOf(S) == IF S = {} THEN <<>>
            ELSE LET x == CHOOSE x \in S : TRUE IN <<x>> \o SeqOf(S \ {x})

\* Option<usize>
None == <<>>

Some(id) == <<id>>

\* UiData::new; the positions, the mode and the plots are left out
UiData_new ==
    [nodes |-> <<>>, current_node_id |-> 0,
     wires |-> <<>>, current_wire_id |-> 0,
     placed_bipoles |-> <<>>, current_bipole_id |-> 0,
     ground_id |-> None,
     \* history: current_node_id at each RunSimulation
     runs |-> <<>>]

\* Circuit::new
Init ==
    /\ ui = UiData_new
    /\ ground_id \in NodeIds
    /\ bipoles = <<>>
    /\ dynamic_bipoles = {}
    /\ nonlinear_bipoles = {}
    /\ nodes = {}
    /\ voltage_bipoles = {}
    /\ calls = 0
    /\ pc = "idle"
    /\ simulationtime_sec = Zero
    /\ timestep_sec = Zero
    /\ n_steps = 0
    /\ step = 0
    /\ out = [currents |-> <<>>, node_voltages |-> <<>>]
    /\ matrix = <<>>
    /\ sources = <<>>
    /\ voltage_bipole_to_current_idx = <<>>
    /\ sol = <<>>
    /\ n_iterations = 0
    /\ iteration = 0
    /\ trace = <<>>
    /\ at_call = <<>>
    /\ written = {}

----------------------------------------------------------------------------
(* Circuit::add_bipole *)

Bipole(anode_id, catode_id, behaviour) ==
    [anode_id |-> anode_id, catode_id |-> catode_id, behaviour |-> behaviour]

\* HashMap::insert: a present key has its value replaced
MapInsert(map, key, value) ==
    [k \in DOMAIN map \cup {key} |-> IF k = key THEN value ELSE map[k]]

\* add_bipole without the insertion of the cathode into the node set
add_bipole_anode_only(behaviour, anode_id, catode_id, name) ==
    /\ voltage_bipoles' =
          IF linear_companion(behaviour, One, One).tag = "VoltageSource"
          THEN voltage_bipoles \cup {name} ELSE voltage_bipoles
    /\ dynamic_bipoles' =
          IF is_dynamic(behaviour) THEN dynamic_bipoles \cup {name} ELSE dynamic_bipoles
    /\ nonlinear_bipoles' =
          IF is_nonlinear(behaviour) THEN nonlinear_bipoles \cup {name} ELSE nonlinear_bipoles
    /\ nodes' = nodes \cup {anode_id}
    /\ bipoles' = MapInsert(bipoles, name, Bipole(anode_id, catode_id, behaviour))
    /\ UNCHANGED ground_id

add_bipole(behaviour, anode_id, catode_id, name) ==
    /\ voltage_bipoles' =
          IF linear_companion(behaviour, One, One).tag = "VoltageSource"
          THEN voltage_bipoles \cup {name} ELSE voltage_bipoles
    /\ dynamic_bipoles' =
          IF is_dynamic(behaviour) THEN dynamic_bipoles \cup {name} ELSE dynamic_bipoles
    /\ nonlinear_bipoles' =
          IF is_nonlinear(behaviour) THEN nonlinear_bipoles \cup {name} ELSE nonlinear_bipoles
    /\ nodes' = nodes \cup {anode_id, catode_id}
    /\ bipoles' = MapInsert(bipoles, name, Bipole(anode_id, catode_id, behaviour))
    /\ UNCHANGED ground_id

AddBipole ==
    /\ pc = "idle"
    /\ calls < MaxBipoles
    /\ \E c \in Calls : add_bipole(c[1], c[2], c[3], c[4])
    /\ calls' = calls + 1
    /\ UNCHANGED <<pc, ui, locals, trace, at_call, written>>

----------------------------------------------------------------------------
(* Circuit::fill, clear, update_nonlinear_op, reset_nonlinear_op *)

\* the entry assigned, what it held before is lost
AddAssigning(A, i, j, x) == [A EXCEPT ![i][j] = x]

Add(A, i, j, x) == [A EXCEPT ![i][j] = RAdd(@, x)]

AddV(b, i, x) == [b EXCEPT ![i] = RAdd(@, x)]

\* the stamp with the current added to the anode's equation and taken from
\* the cathode's
StampCurrentIntoAnode(sys, name, timestep_sec_, time, idx_of) ==
    LET bipole == bipoles[name]
        a == bipole.anode_id
        c == bipole.catode_id
        model == linear_companion(bipole.behaviour, timestep_sec_, time)
    IN  IF model.tag = "VoltageSource"
        THEN LET idx == idx_of[name]
                 A1 == Add(sys.A, a, idx, One)
                 A2 == Add(A1, c, idx, Rat(-1, 1))
                 A3 == Add(A2, idx, a, One)
                 A4 == Add(A3, idx, c, Rat(-1, 1))
             IN  [A |-> A4, b |-> [sys.b EXCEPT ![idx] = model.value]]
        ELSE LET b1 == AddV(sys.b, a, model.current)
                 b2 == AddV(b1, c, RNeg(model.current))
                 A1 == Add(sys.A, a, c, RNeg(model.conduttance))
                 A2 == Add(A1, c, a, RNeg(model.conduttance))
                 A3 == Add(A2, a, a, model.conduttance)
                 A4 == Add(A3, c, c, model.conduttance)
             IN  [A |-> A4, b |-> b2]

\* the stamp of one bipole, statement by statement; sys is [A, b]
Stamp(sys, name, timestep_sec_, time, idx_of) ==
    LET bipole == bipoles[name]
        a == bipole.anode_id
        c == bipole.catode_id
        model == linear_companion(bipole.behaviour, timestep_sec_, time)
    IN  IF model.tag = "VoltageSource"
        THEN LET idx == idx_of[name]
                 A1 == Add(sys.A, a, idx, One)
                 A2 == Add(A1, c, idx, Rat(-1, 1))
                 A3 == Add(A2, idx, a, One)
                 A4 == Add(A3, idx, c, Rat(-1, 1))
             IN  [A |-> A4, b |-> [sys.b EXCEPT ![idx] = model.value]]
        ELSE LET b1 == AddV(sys.b, a, RNeg(model.current))
                 b2 == AddV(b1, c, model.current)
                 A1 == Add(sys.A, a, c, RNeg(model.conduttance))
                 A2 == Add(A1, c, a, RNeg(model.conduttance))
                 A3 == Add(A2, a, a, model.conduttance)
                 A4 == Add(A3, c, c, model.conduttance)
             IN  [A |-> A4, b |-> b2]

RECURSIVE StampAll(_, _, _, _, _)
StampAll(sys, order, timestep_sec_, time, idx_of) ==
    IF order = <<>> THEN sys
    ELSE StampAll(Stamp(sys, Head(order), timestep_sec_, time, idx_of),
                  Tail(order), timestep_sec_, time, idx_of)

\* indexing matrix, sources or sol out of 0..unknowns-1 panics
InBounds(name) ==
    /\ bipoles[name].anode_id < unknowns
    /\ bipoles[name].catode_id < unknowns

\* a stamped index can only coincide with an auxiliary one when a node id
\* is not below the number of nodes; only then does the iteration order of
\* the element map show in the result (sources[idx] is assigned, not added)
OrderMatters ==
    \E name \in DOMAIN bipoles :
        bipoles[name].anode_id >= Cardinality(nodes)
        \/ bipoles[name].catode_id >= Cardinality(nodes)

Orders(S) ==
    IF OrderMatters
    THEN {o \in [1..Cardinality(S) -> S] : \A i, j \in 1..Cardinality(S) : o[i] = o[j] => i = j}
    ELSE {SeqOf(S)}

fill(timestep_sec_, time, idx_of, A, b, order) ==
    StampAll([A |-> A, b |-> b], order, timestep_sec_, time, idx_of)

update_nonlinear_op(x) ==
    [name \in DOMAIN bipoles |->
        IF name \in nonlinear_bipoles
        THEN [bipoles[name] EXCEPT !.behaviour =
                 update_operating_point(@, x[bipoles[name].anode_id], x[bipoles[name].catode_id])]
        ELSE bipoles[name]]

reset_nonlinear_op ==
    [name \in DOMAIN bipoles |->
        IF name \in nonlinear_bipoles
        THEN [bipoles[name] EXCEPT !.behaviour = reset_operating_point(@)]
        ELSE bipoles[name]]

----------------------------------------------------------------------------
(* Circuit::simulate and Circuit::solve_nonlinear, one action per statement *)

\* the loop body with the dynamic state updated before the step is recorded
LoopBodyUpdateFirst ==
    <<"solve_nonlinear", "update_state", "record_currents", "record_voltages", "final_clear">>

\* the statements of the body of `for step in 0..n_steps`, in program order
LoopBody ==
    <<"solve_nonlinear", "record_currents", "record_voltages", "update_state", "final_clear">>

\* the inner loop body without its clear
InnerBodyWithoutClear == <<"fill", "solve", "update_op">>

\* the statements of the body of `for _ in 0..n_iterations`, in program order
InnerBody == <<"clear", "fill", "solve", "update_op">>

\* the position that follows p in body, "end" after the last
After(body, p) ==
    LET k == CHOOSE k \in 1..Len(body) : body[k] = p
    IN  IF k = Len(body) THEN "end" ELSE body[k + 1]

AfterLoopBody(p) ==
    IF After(LoopBody, p) = "end" THEN "loop" ELSE After(LoopBody, p)

time == RMul(Rat(step, 1), timestep_sec)

NumIterationsNonlinear == 30

NumIterationsLinear == 1

num_iterations ==
    IF Cardinality(nonlinear_bipoles) > 0 THEN NumIterationsNonlinear ELSE NumIterationsLinear

\* the enumeration without the offset of the node count
IndexMapsFromZero ==
    {m \in [voltage_bipoles -> 0..(Cardinality(voltage_bipoles) - 1)] :
        \A n1, n2 \in voltage_bipoles : m[n1] = m[n2] => n1 = n2}

\* the enumeration of the voltage name set numbers the auxiliary unknowns
IndexMaps ==
    {m \in [voltage_bipoles -> Cardinality(nodes)..(unknowns - 1)] :
        \A n1, n2 \in voltage_bipoles : m[n1] = m[n2] => n1 = n2}

\* simulate up to its step loop
simulate(simulationtime_sec_, timestep_sec_) ==
    /\ simulationtime_sec' = simulationtime_sec_
    /\ timestep_sec' = timestep_sec_
    /\ n_steps' = AsUsize(RDiv(simulationtime_sec_, timestep_sec_))
    /\ out' = [currents |-> [name \in DOMAIN bipoles |-> ZeroVector(n_steps')],
               node_voltages |-> [node \in nodes |-> ZeroVector(n_steps')]]
    /\ matrix' = ZeroMatrix(unknowns)
    /\ sources' = ZeroVector(unknowns)
    /\ voltage_bipole_to_current_idx' \in IndexMaps
    /\ step' = 0
    /\ pc' = "loop"
    /\ at_call' = bipoles
    /\ written' = {}
    /\ trace' = <<>>
    /\ UNCHANGED <<circuit, calls, ui, sol, n_iterations, iteration>>

Simulate ==
    /\ pc = "idle"
    /\ \E T \in SimulationTimes, dt \in TimeSteps :
          /\ AsUsize(RDiv(T, dt)) <= MaxSteps
          /\ simulate(T, dt)

StepBegin ==
    /\ pc = "loop"
    /\ step < n_steps
    /\ n_iterations' = num_iterations
    /\ pc' = Head(LoopBody)
    /\ trace' = <<>>
    /\ UNCHANGED <<circuit, calls, ui, simulationtime_sec, timestep_sec, n_steps, step, out,
                   matrix, sources, voltage_bipole_to_current_idx, sol, iteration,
                   at_call, written>>

Return ==
    /\ pc = "loop"
    /\ step = n_steps
    /\ pc' = "returned"
    /\ UNCHANGED <<circuit, calls, ui, locals, trace, at_call, written>>

\* solve_nonlinear up to its loop: reset_nonlinear_op, then sol = zero
ResetNonlinearOp ==
    /\ pc = "solve_nonlinear"
    /\ bipoles' = reset_nonlinear_op
    /\ sol' = ZeroVector(unknowns)
    /\ iteration' = 0
    /\ pc' = Head(InnerBody)
    /\ trace' = trace \o [k \in 1..Cardinality(nonlinear_bipoles) |->
                            Event("reset_operating_point", SeqOf(nonlinear_bipoles)[k], Zero, Zero)]
    /\ UNCHANGED <<dynamic_bipoles, nonlinear_bipoles, ground_id, nodes, voltage_bipoles,
                   calls, ui, simulationtime_sec, timestep_sec, n_steps, step, out,
                   matrix, sources, voltage_bipole_to_current_idx, n_iterations,
                   at_call, written>>

Clear ==
    /\ pc = "clear"
    /\ matrix' = ZeroMatrix(unknowns)
    /\ sources' = ZeroVector(unknowns)
    /\ pc' = After(InnerBody, "clear")
    /\ trace' = Append(trace, Mark("clear"))
    /\ UNCHANGED <<circuit, calls, ui, simulationtime_sec, timestep_sec, n_steps, step, out,
                   voltage_bipole_to_current_idx, sol, n_iterations, iteration,
                   at_call, written>>

Fill ==
    /\ pc = "fill"
    /\ IF \A name \in DOMAIN bipoles : InBounds(name)
       THEN \E order \in Orders(DOMAIN bipoles) :
               LET sys == fill(timestep_sec, time, voltage_bipole_to_current_idx,
                               matrix, sources, order)
               IN  /\ matrix' = sys.A
                   /\ sources' = sys.b
                   /\ pc' = After(InnerBody, "fill")
       ELSE /\ pc' = "panicked"
            /\ UNCHANGED <<matrix, sources>>
    /\ trace' = Append(trace, Mark("fill"))
    /\ UNCHANGED <<circuit, calls, ui, simulationtime_sec, timestep_sec, n_steps, step, out,
                   voltage_bipole_to_current_idx, sol, n_iterations, iteration,
                   at_call, written>>

\* sol = matrix.solve(sources).unwrap()
SolveStep ==
    /\ pc = "solve"
    /\ \E t \in FreeValues :
          LET res == Solve(matrix, sources, unknowns, t)
          IN  IF res.ok
              THEN /\ sol' = res.x
                   /\ pc' = After(InnerBody, "solve")
              ELSE /\ pc' = "panicked"
                   /\ UNCHANGED sol
    /\ trace' = Append(trace, Mark("solve"))
    /\ UNCHANGED <<circuit, calls, ui, simulationtime_sec, timestep_sec, n_steps, step, out,
                   matrix, sources, voltage_bipole_to_current_idx, n_iterations, iteration,
                   at_call, written>>

UpdateNonlinearOp ==
    /\ pc = "update_op"
    /\ bipoles' = update_nonlinear_op(sol)
    /\ iteration' = iteration + 1
    /\ pc' = IF iteration + 1 < n_iterations THEN Head(InnerBody)
             ELSE AfterLoopBody("solve_nonlinear")
    /\ trace' = trace \o [k \in 1..Cardinality(nonlinear_bipoles) |->
                            Event("update_operating_point", SeqOf(nonlinear_bipoles)[k], Zero, Zero)]
    /\ UNCHANGED <<dynamic_bipoles, nonlinear_bipoles, ground_id, nodes, voltage_bipoles,
                   calls, ui, simulationtime_sec, timestep_sec, n_steps, step, out,
                   matrix, sources, voltage_bipole_to_current_idx, sol, n_iterations,
                   at_call, written>>

\* the current through the conductance alone, without the companion's source
BranchCurrentConduttanceOnly(name, x) ==
    IF name \in DOMAIN voltage_bipole_to_current_idx
    THEN [set |-> TRUE, value |-> x[voltage_bipole_to_current_idx[name]]]
    ELSE LET bipole == bipoles[name]
             model == linear_companion(bipole.behaviour, timestep_sec, time)
         IN  IF model.tag = "ConduttanceCurrentSource"
             THEN [set |-> TRUE,
                   value |-> RMul(model.conduttance,
                                  RSub(x[bipole.anode_id], x[bipole.catode_id]))]
             ELSE [set |-> FALSE, value |-> Zero]

\* the current recorded for one bipole from the solution x
BranchCurrent(name, x) ==
    IF name \in DOMAIN voltage_bipole_to_current_idx
    THEN [set |-> TRUE, value |-> x[voltage_bipole_to_current_idx[name]]]
    ELSE LET bipole == bipoles[name]
             model == linear_companion(bipole.behaviour, timestep_sec, time)
         IN  IF model.tag = "ConduttanceCurrentSource"
             THEN [set |-> TRUE,
                   value |-> RAdd(RMul(model.conduttance,
                                       RSub(x[bipole.anode_id], x[bipole.catode_id])),
                                  model.current)]
             ELSE [set |-> FALSE, value |-> Zero]

RecordCurrents ==
    /\ pc = "record_currents"
    /\ out' = [out EXCEPT !.currents =
                  [name \in DOMAIN out.currents |->
                      IF BranchCurrent(name, sol).set
                      THEN [out.currents[name] EXCEPT ![step] = BranchCurrent(name, sol).value]
                      ELSE out.currents[name]]]
    /\ written' = written \cup
                  {<<"currents", name, step>> : name \in
                      {n \in DOMAIN out.currents : BranchCurrent(n, sol).set}}
    /\ pc' = AfterLoopBody("record_currents")
    /\ trace' = Append(trace, Mark("record_currents"))
    /\ UNCHANGED <<circuit, calls, ui, simulationtime_sec, timestep_sec, n_steps, step,
                   matrix, sources, voltage_bipole_to_current_idx, sol, n_iterations,
                   iteration, at_call>>

RecordVoltages ==
    /\ pc = "record_voltages"
    /\ IF nodes = {} \/ (ground_id < unknowns /\ \A node \in nodes : node < unknowns)
       THEN /\ out' = [out EXCEPT !.node_voltages =
                          [node \in DOMAIN out.node_voltages |->
                              [out.node_voltages[node] EXCEPT
                                  ![step] = RSub(sol[node], sol[ground_id])]]]
            /\ written' = written \cup {<<"node_voltages", node, step>> : node \in nodes}
            /\ pc' = AfterLoopBody("record_voltages")
       ELSE /\ pc' = "panicked"
            /\ UNCHANGED <<out, written>>
    /\ trace' = Append(trace, Mark("record_voltages"))
    /\ UNCHANGED <<circuit, calls, ui, simulationtime_sec, timestep_sec, n_steps, step,
                   matrix, sources, voltage_bipole_to_current_idx, sol, n_iterations,
                   iteration, at_call>>

UpdateState ==
    /\ pc = "update_state"
    /\ bipoles' = [name \in DOMAIN bipoles |->
                      IF name \in dynamic_bipoles
                      THEN [bipoles[name] EXCEPT !.behaviour =
                               update_state(@, sol[bipoles[name].anode_id],
                                            sol[bipoles[name].catode_id], timestep_sec)]
                      ELSE bipoles[name]]
    /\ pc' = AfterLoopBody("update_state")
    /\ trace' = trace \o [k \in 1..Cardinality(dynamic_bipoles) |->
                            LET name == SeqOf(dynamic_bipoles)[k]
                            IN  Event("update_state", name, sol[bipoles[name].anode_id],
                                      sol[bipoles[name].catode_id])]
    /\ UNCHANGED <<dynamic_bipoles, nonlinear_bipoles, ground_id, nodes, voltage_bipoles,
                   calls, ui, simulationtime_sec, timestep_sec, n_steps, step, out,
                   matrix, sources, voltage_bipole_to_current_idx, sol, n_iterations,
                   iteration, at_call, written>>

\* self.clear(&mut matrix, &mut sources), the end of the loop body
FinalClear ==
    /\ pc = "final_clear"
    /\ matrix' = ZeroMatrix(unknowns)
    /\ sources' = ZeroVector(unknowns)
    /\ trace' = Append(trace, Mark("clear"))
    /\ IF AfterLoopBody("final_clear") = "loop"
       THEN /\ step' = step + 1
            /\ pc' = "loop"
       ELSE /\ step' = step
            /\ pc' = AfterLoopBody("final_clear")
    /\ UNCHANGED <<circuit, calls, ui, simulationtime_sec, timestep_sec, n_steps, out,
                   voltage_bipole_to_current_idx, sol, n_iterations, iteration,
                   at_call, written>>

Next ==
    \/ AddBipole
    \/ Simulate
    \/ StepBegin
    \/ ResetNonlinearOp
    \/ Clear
    \/ Fill
    \/ SolveStep
    \/ UpdateNonlinearOp
    \/ RecordCurrents
    \/ RecordVoltages
    \/ UpdateState
    \/ FinalClear
    \/ Return

Spec == Init /\ [][Next]_vars

----------------------------------------------------------------------------
(* Properties *)

\* the positions of the events of operation op on element name in the trace
Occurrences(op, name) ==
    {k \in DOMAIN trace : trace[k][1] = op /\ trace[k][2] = name}

\* the recorded voltage across the terminals of an element at step s
Drop(name, s) ==
    RSub(out.node_voltages[bipoles[name].anode_id][s],
         out.node_voltages[bipoles[name].catode_id][s])

Recorded(name, s) ==
    /\ <<"currents", name, s>> \in written
    /\ <<"node_voltages", bipoles[name].anode_id, s>> \in written
    /\ <<"node_voltages", bipoles[name].catode_id, s>> \in written

\* the voltage a capacitor holds when step s begins
CapacitorStateBefore(name, s) ==
    IF s = 0 THEN at_call[name].behaviour.current_voltage ELSE Drop(name, s - 1)

\* the current an inductor holds when step s begins
RECURSIVE InductorStateBefore(_, _)
InductorStateBefore(name, s) ==
    IF s = 0 THEN at_call[name].behaviour.current_i
    ELSE RAdd(InductorStateBefore(name, s - 1),
              RMul(Drop(name, s - 1),
                   RDiv(timestep_sec, bipoles[name].behaviour.induttance)))

UpdatedOnceAfterRecording(name) ==
    /\ Cardinality(Occurrences("update_state", name)) = 1
    /\ Cardinality(Occurrences("record_currents", "")) = 1
    /\ Cardinality(Occurrences("record_voltages", "")) = 1
    /\ \A k \in Occurrences("update_state", name) :
          /\ \A r \in Occurrences("record_currents", "") \cup Occurrences("record_voltages", "") :
                r < k
          /\ trace[k][3] = sol[bipoles[name].anode_id]
          /\ trace[k][4] = sol[bipoles[name].catode_id]

(* C1: in every timestep update_state is invoked exactly once on each       *)
(* dynamic element, with the terminal voltages of the step's solution, and  *)
(* only after the currents and voltages of the step have been recorded; the *)
(* current recorded for a capacitor or inductor at step s is the companion  *)
(* current for the state left by step s-1 (the constructor's value at s=0). *)
C1_UpdateStateAfterRecording ==
    /\ pc = "final_clear" =>
          \A name \in DOMAIN bipoles :
              is_dynamic(bipoles[name].behaviour) => UpdatedOnceAfterRecording(name)
    /\ pc \notin {"idle", "panicked"} =>
          \A name \in DOMAIN bipoles : \A s \in 0..(n_steps - 1) :
              Recorded(name, s) =>
                 LET e == bipoles[name].behaviour
                 IN  /\ e.kind = "Capacitor" =>
                           out.currents[name][s] =
                              RMul(RDiv(e.capacitance, timestep_sec),
                                   RSub(Drop(name, s), CapacitorStateBefore(name, s)))
                     /\ e.kind = "Inductor" =>
                           out.currents[name][s] =
                              RSub(RMul(RDiv(timestep_sec, e.induttance), Drop(name, s)),
                                   InductorStateBefore(name, s))

\* a capacitor or an inductor has been through two steps and carries a current
C1_Witness ==
    /\ pc = "final_clear"
    /\ step = 1
    /\ \E name \in DOMAIN bipoles :
          /\ is_dynamic(bipoles[name].behaviour)
          /\ IsFinite(out.currents[name][1])
          /\ out.currents[name][1] # Zero
          /\ out.currents[name][1] # out.currents[name][0]

IsDiode(name) == bipoles[name].behaviour.kind = "Diode"

(* C2: in every timestep reset_operating_point is invoked exactly once on   *)
(* each nonlinear element, before the first assembly of the timestep; at    *)
(* the first inner iteration every diode is linearised at v* = 0.9,         *)
(* i* = 1.08, whatever its constructor received and wherever the previous   *)
(* timestep ended.                                                          *)
C2_ResetBeforeFirstAssembly ==
    /\ (pc = "fill" /\ iteration = 0) =>
          /\ Occurrences("fill", "") = {}
          /\ \A name \in DOMAIN bipoles :
                IsDiode(name) =>
                   /\ Cardinality(Occurrences("reset_operating_point", name)) = 1
                   /\ bipoles[name].behaviour.current_v = Rat(9, 10)
                   /\ bipoles[name].behaviour.current_i = Rat(27, 25)
    /\ pc = "final_clear" =>
          \A name \in DOMAIN bipoles :
              IsDiode(name) =>
                 /\ Cardinality(Occurrences("reset_operating_point", name)) = 1
                 /\ \A r \in Occurrences("reset_operating_point", name) :
                       \A f \in Occurrences("fill", "") : r < f

\* the first assembly of the second step of a diode that was constructed at
\* another point and ended the first step at yet another
C2_Witness ==
    /\ pc = "fill"
    /\ iteration = 0
    /\ step = 1
    /\ \E name \in DOMAIN bipoles :
          /\ IsDiode(name)
          /\ at_call[name].behaviour.current_v # Rat(9, 10)
          /\ IsFinite(Drop(name, 0))
          /\ Drop(name, 0) # Rat(9, 10)

HoldsNonlinearElement == \E name \in DOMAIN bipoles : is_nonlinear(bipoles[name].behaviour)

(* C3: every timestep performs exactly 30 inner iterations when the circuit *)
(* holds a nonlinear element and exactly 1 otherwise, each in the order     *)
(* zero A,b -> assemble -> solve -> update_operating_point on every         *)
(* nonlinear element; the step's solution is the last iteration's.          *)
C3_ThirtyIterationsOrOne ==
    pc = "record_currents" =>
       LET n == IF HoldsNonlinearElement THEN 30 ELSE 1
       IN  /\ iteration = n
           /\ Cardinality(Occurrences("solve", "")) = n
           /\ Cardinality(Occurrences("fill", "")) = n
           /\ \A k \in Occurrences("solve", "") :
                 /\ k > 2
                 /\ trace[k - 1] = Mark("fill")
                 /\ trace[k - 2] = Mark("clear")
                 /\ \A name \in DOMAIN bipoles :
                       is_nonlinear(bipoles[name].behaviour) =>
                          \E u \in Occurrences("update_operating_point", name) :
                              /\ k < u
                              /\ \A f \in Occurrences("fill", "") : k < f => u < f

RLeq(a, b) == a[1] * b[2] <= b[1] * a[2]

\* k steps fit in the simulated time and k + 1 do not
IsFloorOfQuotient(k) ==
    /\ RLeq(RMul(Rat(k, 1), timestep_sec), simulationtime_sec)
    /\ ~RLeq(RMul(Rat(k + 1, 1), timestep_sec), simulationtime_sec)

(* C4: for T_sim >= 0 and timestep > 0 simulate returns one current         *)
(* sequence per element name and one voltage sequence per node of the node  *)
(* set, each of length floor(T_sim / timestep), and every entry s of every  *)
(* sequence has been written by step s.                                     *)
C4_OutputShape ==
    (pc = "returned" /\ RLeq(Zero, simulationtime_sec) /\ ~RLeq(timestep_sec, Zero)) =>
       /\ IsFloorOfQuotient(n_steps)
       /\ DOMAIN out.currents = DOMAIN bipoles
       /\ DOMAIN out.node_voltages = nodes
       /\ \A name \in DOMAIN bipoles :
             /\ DOMAIN out.currents[name] = 0..(n_steps - 1)
             /\ \A s \in 0..(n_steps - 1) : <<"currents", name, s>> \in written
       /\ \A node \in nodes :
             /\ DOMAIN out.node_voltages[node] = 0..(n_steps - 1)
             /\ \A s \in 0..(n_steps - 1) : <<"node_voltages", node, s>> \in written

\* a returned run of two steps whose quotient T_sim / timestep is not whole,
\* over a circuit of at least two elements with a nonzero current
C4_Witness ==
    /\ pc = "returned"
    /\ n_steps = 2
    /\ RMul(Rat(n_steps, 1), timestep_sec) # simulationtime_sec
    /\ Cardinality(DOMAIN bipoles) >= 2
    /\ \E name \in DOMAIN bipoles :
          IsFinite(out.currents[name][1]) /\ out.currents[name][1] # Zero

(* C5: for every circuit handed to simulate the output holds a voltage      *)
(* sequence for the ground node id given to Circuit::new, and every entry   *)
(* of that sequence is 0.                                                   *)
C5_GroundVoltageIsZero ==
    pc = "returned" =>
       /\ ground_id \in DOMAIN out.node_voltages
       /\ \A s \in 0..(n_steps - 1) : out.node_voltages[ground_id][s] = Zero

\* the value a voltage-defined element commands at step s
Commanded(name, s) ==
    LET e == bipoles[name].behaviour
        t == RMul(Rat(s, 1), timestep_sec)
    IN  IF e.kind = "VoltageSource" THEN e.value
        ELSE RMul(e.value, SinTurns(RMul(e.frequency_hz, t)))

(* C6: for every voltage-defined element and every step s the recorded     *)
(* voltages satisfy voltages[anode][s] - voltages[cathode][s] = the value   *)
(* the source commands at time s * timestep.                                *)
C6_VoltageSourceLaw ==
    pc = "returned" =>
       \A name \in DOMAIN bipoles : \A s \in 0..(n_steps - 1) :
           bipoles[name].behaviour.kind \in {"VoltageSource", "SinusoidalVoltageSource"} =>
              Drop(name, s) = Commanded(name, s)

RECURSIVE SumCurrents(_, _)
SumCurrents(S, s) ==
    IF S = {} THEN Zero
    ELSE LET name == CHOOSE name \in S : TRUE
         IN  RAdd(out.currents[name][s], SumCurrents(S \ {name}, s))

\* the recorded current that enters node n at step s
Entering(n, s) ==
    RSub(SumCurrents({name \in DOMAIN bipoles : bipoles[name].catode_id = n}, s),
         SumCurrents({name \in DOMAIN bipoles : bipoles[name].anode_id = n}, s))

(* C7: at every step and every non-ground node the recorded branch         *)
(* currents balance: the currents of the elements whose cathode is the node *)
(* minus those of the elements whose anode is the node sum to zero; also    *)
(* with dynamic and with nonlinear elements.                                *)
C7_KirchhoffCurrentLaw ==
    pc = "returned" =>
       \A n \in nodes \ {ground_id} : \A s \in 0..(n_steps - 1) :
           Entering(n, s) = Zero

(* C8: add_bipole with a name that is already present fails and replaces   *)
(* nothing: the element map, the node set and the dynamic, nonlinear and    *)
(* voltage name sets are left as they were before the call.                 *)
C8_DuplicateNameRejected ==
    [][(calls' = calls + 1 /\ DOMAIN bipoles' = DOMAIN bipoles) => circuit' = circuit]_vars

Positive(x) == IsFinite(x) /\ x[1] > 0

ValidParameters(e) ==
    /\ e.kind = "Resistor" => Positive(e.resistance)
    /\ e.kind = "Capacitor" => Positive(e.capacitance)
    /\ e.kind = "Inductor" => Positive(e.induttance)
    /\ e.kind = "Diode" => Positive(e.voltage_vt) /\ Positive(e.current_s)

(* C9: an element with a non-positive R, C or L, or a diode with a          *)
(* non-positive Vt or Is, is refused when it is constructed or added: no    *)
(* such element is present in a circuit that simulate runs on.              *)
C9_InvalidParameterRejected ==
    pc # "idle" => \A name \in DOMAIN bipoles : ValidParameters(bipoles[name].behaviour)

(* C10: when the linear solve of an inner iteration fails, simulate ends    *)
(* the transient with a SingularSystem failure handed to the caller; it     *)
(* does not panic.                                                          *)
C10_SolveFailureIsNotAPanic ==
    [][pc = "solve" => pc' # "panicked"]_vars

OutputsFinite ==
    /\ \A name \in DOMAIN out.currents : \A s \in DOMAIN out.currents[name] :
          IsFinite(out.currents[name][s])
    /\ \A node \in DOMAIN out.node_voltages : \A s \in DOMAIN out.node_voltages[node] :
          IsFinite(out.node_voltages[node][s])

AllParametersValid == \A name \in DOMAIN bipoles : ValidParameters(bipoles[name].behaviour)

(* C11: when the solution of an inner iteration holds a non-finite value,   *)
(* simulate aborts with a NumericDivergence failure: it goes on to no       *)
(* further statement with such a solution, and no non-finite value is in    *)
(* the sequences of a call that returns.  Stated for the circuits whose     *)
(* parameters are all valid, where a non-finite value can only come from    *)
(* the iteration itself.                                                    *)
C11_NonFiniteSolutionAborts ==
    AllParametersValid =>
       /\ pc \in {"update_op", "record_currents", "record_voltages", "update_state"} =>
             \A i \in DOMAIN sol : IsFinite(sol[i])
       /\ pc = "returned" => OutputsFinite

Terminals(map) ==
    {map[name].anode_id : name \in DOMAIN map} \cup {map[name].catode_id : name \in DOMAIN map}

(* C13: after every sequence of add_bipole calls the anode and the cathode  *)
(* of every stored element are in the node set, and the node set holds no   *)
(* id that was never given as a terminal: a call adds to it only terminals  *)
(* of the element it stores.                                                *)
C13_NodesAreTerminals ==
    [][/\ Terminals(bipoles') \subseteq nodes'
       /\ (nodes' \ nodes) \subseteq Terminals(bipoles')]_vars

\* three calls, one of them on a name already stored, over three nodes
C13_Witness ==
    /\ calls = 3
    /\ Cardinality(DOMAIN bipoles) = 2
    /\ nodes = {0, 1, 2}
    /\ Terminals(bipoles) # nodes

IsVoltageDefined(behaviour) == linear_companion(behaviour, One, One).tag = "VoltageSource"

StoredOfKind(Kind(_)) == {name \in DOMAIN bipoles : Kind(bipoles[name].behaviour)}

(* C14: after every sequence of add_bipole calls, with or without a reused  *)
(* name, the dynamic, nonlinear and voltage name sets are subsets of the    *)
(* stored names and hold exactly the names of the stored elements that are  *)
(* dynamic, nonlinear and voltage-defined; in particular the voltage name   *)
(* set has as many members as there are stored voltage-defined elements.    *)
C14_NameSetsMatchStoredKinds ==
    /\ dynamic_bipoles \cup nonlinear_bipoles \cup voltage_bipoles \subseteq DOMAIN bipoles
    /\ dynamic_bipoles = StoredOfKind(is_dynamic)
    /\ nonlinear_bipoles = StoredOfKind(is_nonlinear)
    /\ voltage_bipoles = StoredOfKind(IsVoltageDefined)
    /\ Cardinality(voltage_bipoles) = Cardinality(StoredOfKind(IsVoltageDefined))

\* x where p holds, nothing elsewhere
Where(p, x) == IF p THEN x ELSE Zero

Companion(name) == linear_companion(bipoles[name].behaviour, timestep_sec, time)

\* what the stamp of one element adds to A[r, q]
StampOnA(name, r, q) ==
    LET a == bipoles[name].anode_id
        c == bipoles[name].catode_id
        model == Companion(name)
    IN  IF model.tag = "VoltageSource"
        THEN LET k == voltage_bipole_to_current_idx[name]
             IN  RAdd(RAdd(Where(r = a /\ q = k, One), Where(r = k /\ q = a, One)),
                      RAdd(Where(r = c /\ q = k, Rat(-1, 1)), Where(r = k /\ q = c, Rat(-1, 1))))
        ELSE LET g == model.conduttance
             IN  RAdd(RAdd(Where(r = a /\ q = a, g), Where(r = c /\ q = c, g)),
                      RAdd(Where(r = a /\ q = c, RNeg(g)), Where(r = c /\ q = a, RNeg(g))))

\* what the stamp of one conductance-current element adds to b[r]
StampOnB(name, r) ==
    LET a == bipoles[name].anode_id
        c == bipoles[name].catode_id
        i == Companion(name).current
    IN  RAdd(Where(r = a, RNeg(i)), Where(r = c, i))

RECURSIVE SumOver(_, _)
SumOver(S, f) ==
    IF S = {} THEN Zero
    ELSE LET name == CHOOSE name \in S : TRUE
         IN  RAdd(f[name], SumOver(S \ {name}, f))

VoltageDefined == {name \in DOMAIN bipoles : Companion(name).tag = "VoltageSource"}

SelfLoops == {name \in DOMAIN bipoles : bipoles[name].anode_id = bipoles[name].catode_id}

\* A and b are the sums of the stamps of the elements of S; the row of an
\* auxiliary unknown holds the source voltage, assigned: what was added to
\* that row before the assignment is lost
SumOfStamps(S) ==
    /\ \A r, q \in 0..(unknowns - 1) :
          LET OnA == [name \in DOMAIN bipoles |-> StampOnA(name, r, q)] IN matrix[r][q] = SumOver(S, OnA)
    /\ \A r \in 0..(unknowns - 1) :
          LET OnB == [name \in DOMAIN bipoles |-> StampOnB(name, r)]
              assigned == {name \in S \cap VoltageDefined :
                             voltage_bipole_to_current_idx[name] = r}
          IN  IF assigned = {}
              THEN sources[r] = SumOver(S \ VoltageDefined, OnB)
              ELSE \E name \in assigned : \E later \in SUBSET (S \ VoltageDefined) :
                      sources[r] = RAdd(Companion(name).value, SumOver(later, OnB))

(* C15: after each assembly A and b are the sum of the stamps of all the    *)
(* elements: g added to A[a,a] and A[c,c] and subtracted from A[a,c] and    *)
(* A[c,a], i subtracted from b[a] and added to b[c] for a conductance with  *)
(* current; 1 added to A[a,k] and A[k,a] and subtracted from A[c,k] and     *)
(* A[k,c], and b[k] set to v, for a voltage with auxiliary index k. Every   *)
(* other entry is as the clearing left it, and an element with its anode on *)
(* its cathode adds nothing to the rows of the nodes.                       *)
C15_AssemblyIsSumOfStamps ==
    pc = "solve" =>
       /\ SumOfStamps(DOMAIN bipoles)
       /\ \A r \in nodes : r < unknowns =>
             /\ \A q \in 0..(unknowns - 1) :
                   LET OnA == [name \in DOMAIN bipoles |-> StampOnA(name, r, q)]
                   IN  matrix[r][q] = SumOver(DOMAIN bipoles \ SelfLoops, OnA)
             /\ r \notin {voltage_bipole_to_current_idx[name] : name \in VoltageDefined} =>
                   LET OnB == [name \in DOMAIN bipoles |-> StampOnB(name, r)]
                   IN  sources[r] = SumOver(DOMAIN bipoles \ (SelfLoops \cup VoltageDefined), OnB)

\* the assembly alone, whatever the values stamped
C15_SumOfStampsAlone == pc = "solve" => SumOfStamps(DOMAIN bipoles)

\* the element on one node only adds nothing, as long as what it stamps is finite
C15_FiniteSelfLoopIsZero ==
    (pc = "solve" /\ \A name \in SelfLoops :
                        LET model == Companion(name)
                        IN  IsFinite(model.conduttance) /\ IsFinite(model.current)) =>
       \A r \in nodes : r < unknowns =>
          /\ \A q \in 0..(unknowns - 1) :
                LET OnA == [name \in DOMAIN bipoles |-> StampOnA(name, r, q)]
                IN  matrix[r][q] = SumOver(DOMAIN bipoles \ SelfLoops, OnA)
          /\ r \notin {voltage_bipole_to_current_idx[name] : name \in VoltageDefined} =>
                LET OnB == [name \in DOMAIN bipoles |-> StampOnB(name, r)]
                IN  sources[r] = SumOver(DOMAIN bipoles \ (SelfLoops \cup VoltageDefined), OnB)

\* the stored current sources of positive value, in a circuit that holds
\* besides them only resistors of positive resistance, each call having
\* stored an element of its own
SourcesOverResistors ==
    IF /\ calls = Cardinality(DOMAIN bipoles)
       /\ \A name \in DOMAIN bipoles :
             /\ bipoles[name].behaviour.kind \in {"CurrentSource", "Resistor"}
             /\ ValidParameters(bipoles[name].behaviour)
    THEN {name \in DOMAIN bipoles :
             /\ bipoles[name].behaviour.kind = "CurrentSource"
             /\ Positive(bipoles[name].behaviour.value)}
    ELSE {}

\* the only current source of such a circuit
TheSource == CHOOSE name \in SourcesOverResistors : TRUE

(* C16 as the spec states it: a positive current source flows from cathode *)
(* to anode; its stamp adds i to the anode's equation and takes i from the  *)
(* cathode's, and over a resistive return path the anode is the node driven *)
(* positive.                                                                *)
C16_SourceDrivesAnode ==
    Cardinality(SourcesOverResistors) = 1 =>
       LET a == bipoles[TheSource].anode_id
           c == bipoles[TheSource].catode_id
           i == bipoles[TheSource].behaviour.value
       IN  /\ (pc = "solve" /\ a # c) => (sources[a] = i /\ sources[c] = RNeg(i))
           /\ pc = "returned" =>
                 \A s \in 0..(n_steps - 1) :
                    Positive(RSub(out.node_voltages[a][s], out.node_voltages[c][s]))

(* C16: a positive current source flows from anode to cathode inside the    *)
(* element; its stamp takes i from the anode's equation and adds i to the   *)
(* cathode's, and over a resistive return path the cathode is the node      *)
(* driven positive.                                                         *)
C16_SourceDrivesCathode ==
    Cardinality(SourcesOverResistors) = 1 =>
       LET a == bipoles[TheSource].anode_id
           c == bipoles[TheSource].catode_id
           i == bipoles[TheSource].behaviour.value
       IN  /\ (pc = "solve" /\ a # c) => (sources[a] = RNeg(i) /\ sources[c] = i)
           /\ pc = "returned" =>
                 \A s \in 0..(n_steps - 1) :
                    Positive(RSub(out.node_voltages[c][s], out.node_voltages[a][s]))

\* a current source over two resistors, two steps recorded
C16_Witness ==
    /\ Cardinality(SourcesOverResistors) = 1
    /\ Cardinality(DOMAIN bipoles) = 3
    /\ pc = "returned"
    /\ n_steps = 2

\* m maps the set S one to one onto the set T
IsBijection(m, S, T) ==
    /\ DOMAIN m = S
    /\ {m[x] : x \in S} = T
    /\ \A x, y \in S : m[x] = m[y] => x = y

(* C17: during one simulate call the map from the voltage names to the      *)
(* auxiliary indices is built once; it is a bijection from the voltage name *)
(* set onto N..N+M-1, N the number of nodes, and it is the same map in      *)
(* every inner iteration and every step, for the stamping and for the       *)
(* reading of the branch currents.                                          *)
C17_AuxiliaryIndexMapFixed ==
    [][/\ pc' # "idle" =>
             IsBijection(voltage_bipole_to_current_idx', voltage_bipoles',
                         Cardinality(nodes')..(Cardinality(nodes') + Cardinality(voltage_bipoles') - 1))
       /\ pc # "idle" => voltage_bipole_to_current_idx' = voltage_bipole_to_current_idx]_vars

\* the currents of the second step are read with two auxiliary unknowns
C17_Witness ==
    /\ pc = "record_voltages"
    /\ step = 1
    /\ Cardinality(voltage_bipoles) = 2
    /\ \E n1, n2 \in voltage_bipoles :
          /\ out.currents[n1][1] = sol[voltage_bipole_to_current_idx[n1]]
          /\ voltage_bipole_to_current_idx[n1] < voltage_bipole_to_current_idx[n2]

\* the events of operation op in the trace of the step, on any element
EventsOf(op) == {k \in DOMAIN trace : trace[k][1] = op}

RAbs(x) == IF IsFinite(x) THEN Rat(Abs(x[1]), x[2]) ELSE NonFinite

\* the pairs <<l, r>> of a circuit that is one inductor l, holding a
\* positive current when simulate is called, in parallel with one resistor r
InductorResistorLoops ==
    {p \in (DOMAIN bipoles) \X (DOMAIN bipoles) :
        /\ calls = 2
        /\ DOMAIN bipoles = {p[1], p[2]}
        /\ bipoles[p[1]].behaviour.kind = "Inductor"
        /\ bipoles[p[2]].behaviour.kind = "Resistor"
        /\ ValidParameters(bipoles[p[1]].behaviour)
        /\ ValidParameters(bipoles[p[2]].behaviour)
        /\ bipoles[p[1]].anode_id # bipoles[p[1]].catode_id
        /\ {bipoles[p[1]].anode_id, bipoles[p[1]].catode_id}
              = {bipoles[p[2]].anode_id, bipoles[p[2]].catode_id}
        /\ Positive(at_call[p[1]].behaviour.current_i)}

\* 1/(1 + R*timestep/L)
BackwardEulerRatio(l, r) ==
    RDiv(One, RAdd(One, RDiv(RMul(bipoles[r].behaviour.resistance, timestep_sec),
                             bipoles[l].behaviour.induttance)))

(* C19: in a closed loop of one inductor with a positive initial current in *)
(* parallel with one resistor the recorded inductor current decays step     *)
(* after step with the Backward-Euler ratio 1/(1 + R*timestep/L): each      *)
(* recorded current is smaller in magnitude than the one before it.         *)
C19_InductorCurrentDecays ==
    pc = "returned" =>
       \A p \in InductorResistorLoops : \A s \in 0..(n_steps - 2) :
          /\ out.currents[p[1]][s + 1] =
                RMul(out.currents[p[1]][s], BackwardEulerRatio(p[1], p[2]))
          /\ Positive(RSub(RAbs(out.currents[p[1]][s]), RAbs(out.currents[p[1]][s + 1])))

----------------------------------------------------------------------------
(* The resistive circuits of the repository's tests, built call by call     *)

test_solve ==
    << <<CurrentSource(One), 0, 1, "I">>,
       <<Resistor(Rat(1, 10)), 1, 2, "R1">>,
       <<Resistor(Rat(1, 5)), 2, 0, "R2">>,
       <<Resistor(Rat(1, 5)), 2, 0, "R3">> >>

test_voltage ==
    << <<VoltageSource(Rat(10, 1)), 1, 0, "V">>,
       <<Resistor(Rat(10, 1)), 1, 2, "R1">>,
       <<Resistor(Rat(10, 1)), 2, 0, "R2">> >>

Tests == {test_solve, test_voltage}

\* the circuit is what the first k calls of test t build
Built(t, k) ==
    /\ calls = k
    /\ DOMAIN bipoles = {t[j][4] : j \in 1..k}
    /\ \A j \in 1..k : bipoles[t[j][4]] = Bipole(t[j][2], t[j][3], t[j][1])

\* Circuit::new(0)
InitTests == Init /\ ground_id = 0

AddTestBipole ==
    /\ pc = "idle"
    /\ \E t \in Tests :
          /\ calls < Len(t)
          /\ Built(t, calls)
          /\ LET c == t[calls + 1] IN add_bipole(c[1], c[2], c[3], c[4])
    /\ calls' = calls + 1
    /\ UNCHANGED <<pc, ui, locals, trace, at_call, written>>

\* circuit.simulate(1.0, 0.5), also with the other timestep and on the
\* circuit as it stands after any of the test's calls
SimulateTest ==
    /\ pc = "idle"
    /\ \E t \in Tests : \E k \in 0..Len(t) : Built(t, k)
    /\ \E dt \in TimeSteps : simulate(One, dt)

NextTests ==
    \/ AddTestBipole
    \/ SimulateTest
    \/ StepBegin
    \/ ResetNonlinearOp
    \/ Clear
    \/ Fill
    \/ SolveStep
    \/ UpdateNonlinearOp
    \/ RecordCurrents
    \/ RecordVoltages
    \/ UpdateState
    \/ FinalClear
    \/ Return

SpecTests == InitTests /\ [][NextTests]_vars

Parallel(x, y) == RDiv(RMul(x, y), RAdd(x, y))

(* C20: for a circuit of resistors and DC sources the node voltages         *)
(* recorded at every step are the same and are the analytical solution: a   *)
(* current source I into R1 in series with R2 parallel R3 gives             *)
(* voltages[2] = I*(R2*R3/(R2+R3)), 0.1 for the values of test_solve; a     *)
(* voltage source V across R1 in series with R2 gives                       *)
(* voltages[2] = V*R2/(R1+R2), 5.0 for the values of test_voltage.          *)
C20_ResistiveDCSolution ==
    /\ \A node \in nodes : \A s \in 0..(n_steps - 1) :
          (<<"node_voltages", node, s>> \in written /\ pc # "idle") =>
             out.node_voltages[node][s] = out.node_voltages[node][0]
    /\ \A s \in 0..(n_steps - 1) :
          (<<"node_voltages", 2, s>> \in written /\ pc # "idle") =>
             /\ Built(test_solve, Len(test_solve)) =>
                   /\ out.node_voltages[2][s] =
                         RMul(bipoles["I"].behaviour.value,
                              Parallel(bipoles["R2"].behaviour.resistance,
                                       bipoles["R3"].behaviour.resistance))
                   /\ out.node_voltages[2][s] = Rat(1, 10)
             /\ Built(test_voltage, Len(test_voltage)) =>
                   /\ out.node_voltages[2][s] =
                         RDiv(RMul(bipoles["V"].behaviour.value, bipoles["R2"].behaviour.resistance),
                              RAdd(bipoles["R1"].behaviour.resistance,
                                   bipoles["R2"].behaviour.resistance))
                   /\ out.node_voltages[2][s] = Rat(5, 1)

\* test_solve has returned with two steps recorded
C20_Witness ==
    /\ pc = "returned"
    /\ Built(test_solve, Len(test_solve))
    /\ n_steps = 2
    /\ out.node_voltages[2][1] = Rat(1, 10)
    /\ out.node_voltages[1][1] = Rat(1, 5)

\* test_voltage has returned with two steps recorded
C20_WitnessVoltage ==
    /\ pc = "returned"
    /\ Built(test_voltage, Len(test_voltage))
    /\ n_steps = 2
    /\ out.node_voltages[2][1] = Rat(5, 1)

----------------------------------------------------------------------------
(* The assembly with the rounding of a binary floating-point format. f64    *)
(* rounds every sum to 53 significant bits, to nearest, ties to even; the   *)
(* format here has SignificandBits of them and no exponent limits. Only     *)
(* the accumulation of the stamps is rounded: every other operation on the  *)
(* values of RoundedCalls is exact in this format.                          *)

SignificandBits == 3

\* the integer nearest to n/d, the even one of two equally near; n, d > 0
NearestEven(n, d) ==
    LET q == n \div d
        r == n % d
    IN  IF 2 * r < d THEN q
        ELSE IF 2 * r > d THEN q + 1
        ELSE IF q % 2 = 0 THEN q ELSE q + 1

\* n/d > 0 rounded to SignificandBits significant bits
RECURSIVE RoundPositive(_, _)
RoundPositive(n, d) ==
    IF n >= Pow2(SignificandBits) * d THEN RMul(Rat(2, 1), RoundPositive(n, 2 * d))
    ELSE IF n < Pow2(SignificandBits - 1) * d THEN RMul(Rat(1, 2), RoundPositive(2 * n, d))
    ELSE Rat(NearestEven(n, d), 1)

Round(x) ==
    IF ~IsFinite(x) \/ x[1] = 0 THEN x
    ELSE IF x[1] < 0 THEN RNeg(RoundPositive(-x[1], x[2]))
    ELSE RoundPositive(x[1], x[2])

AddRounded(A, i, j, x) == [A EXCEPT ![i][j] = Round(RAdd(@, x))]

AddVRounded(b, i, x) == [b EXCEPT ![i] = Round(RAdd(@, x))]

\* the stamp of one bipole, every += rounded
StampRounded(sys, name, timestep_sec_, time_, idx_of) ==
    LET bipole == bipoles[name]
        a == bipole.anode_id
        c == bipole.catode_id
        model == linear_companion(bipole.behaviour, timestep_sec_, time_)
    IN  IF model.tag = "VoltageSource"
        THEN LET idx == idx_of[name]
                 A1 == AddRounded(sys.A, a, idx, One)
                 A2 == AddRounded(A1, c, idx, Rat(-1, 1))
                 A3 == AddRounded(A2, idx, a, One)
                 A4 == AddRounded(A3, idx, c, Rat(-1, 1))
             IN  [A |-> A4, b |-> [sys.b EXCEPT ![idx] = model.value]]
        ELSE LET b1 == AddVRounded(sys.b, a, RNeg(model.current))
                 b2 == AddVRounded(b1, c, model.current)
                 A1 == AddRounded(sys.A, a, c, RNeg(model.conduttance))
                 A2 == AddRounded(A1, c, a, RNeg(model.conduttance))
                 A3 == AddRounded(A2, a, a, model.conduttance)
                 A4 == AddRounded(A3, c, c, model.conduttance)
             IN  [A |-> A4, b |-> b2]

RECURSIVE StampAllRounded(_, _, _, _, _)
StampAllRounded(sys, order, timestep_sec_, time_, idx_of) ==
    IF order = <<>> THEN sys
    ELSE StampAllRounded(StampRounded(sys, Head(order), timestep_sec_, time_, idx_of),
                         Tail(order), timestep_sec_, time_, idx_of)

\* the orders in which `for (name, bipole) in &self.bipoles` can visit the
\* map: the hasher of a HashMap is seeded at random
IterationOrders(S) ==
    {o \in [1..Cardinality(S) -> S] : \A i, j \in 1..Cardinality(S) : o[i] = o[j] => i = j}

\* current sources and a resistor between nodes 0 and 1, all values exact in
\* the format; the caller gives every element a name of its own
RoundedCalls ==
    { <<CurrentSource(One), 0, 1, "i1">>,
      <<CurrentSource(Rat(1, 8)), 0, 1, "i2">>,
      <<CurrentSource(Rat(1, 8)), 0, 1, "i3">>,
      <<Resistor(One), 1, 0, "r">> }

AddBipoleRounded ==
    /\ pc = "idle"
    /\ \E c \in RoundedCalls :
          /\ c[4] \notin DOMAIN bipoles
          /\ add_bipole(c[1], c[2], c[3], c[4])
    /\ calls' = calls + 1
    /\ UNCHANGED <<pc, ui, locals, trace, at_call, written>>

FillRounded ==
    /\ pc = "fill"
    /\ IF \A name \in DOMAIN bipoles : InBounds(name)
       THEN \E order \in IterationOrders(DOMAIN bipoles) :
               LET sys == StampAllRounded([A |-> matrix, b |-> sources], order, timestep_sec,
                                          time, voltage_bipole_to_current_idx)
               IN  /\ matrix' = sys.A
                   /\ sources' = sys.b
                   /\ pc' = After(InnerBody, "fill")
       ELSE /\ pc' = "panicked"
            /\ UNCHANGED <<matrix, sources>>
    /\ trace' = Append(trace, Mark("fill"))
    /\ UNCHANGED <<circuit, calls, ui, simulationtime_sec, timestep_sec, n_steps, step, out,
                   voltage_bipole_to_current_idx, sol, n_iterations, iteration,
                   at_call, written>>

NextRounded ==
    \/ AddBipoleRounded
    \/ Simulate
    \/ StepBegin
    \/ ResetNonlinearOp
    \/ Clear
    \/ FillRounded
    \/ SolveStep
    \/ UpdateNonlinearOp
    \/ RecordCurrents
    \/ RecordVoltages
    \/ UpdateState
    \/ FinalClear
    \/ Return

SpecRounded == Init /\ [][NextRounded]_vars

\* the run of the same call on the same circuit that visits the element map
\* in the order SeqOf(DOMAIN bipoles): its assembly, its solution
OtherRunAssembly ==
    StampAllRounded([A |-> ZeroMatrix(unknowns), b |-> ZeroVector(unknowns)],
                    SeqOf(DOMAIN bipoles), timestep_sec, time, voltage_bipole_to_current_idx)

OtherRunSolution == Solve(OtherRunAssembly.A, OtherRunAssembly.b, unknowns, Zero)

(* C12: for a circuit without nonlinear element two runs of simulate with   *)
(* the same arguments on the same circuit give identical outputs: the       *)
(* voltages and currents of a run are those of the run that visits the      *)
(* element map in another order. Stated for circuits of DC sources and      *)
(* resistors, whose assembly is the same at every step.                     *)
C12_OutputsIndependentOfIterationOrder ==
    (pc = "returned" /\ n_steps > 0) =>
       /\ OtherRunSolution.ok
       /\ \A s \in 0..(n_steps - 1) :
             /\ \A node \in nodes :
                   out.node_voltages[node][s] =
                      RSub(OtherRunSolution.x[node], OtherRunSolution.x[ground_id])
             /\ \A name \in DOMAIN bipoles :
                   out.currents[name][s] = BranchCurrent(name, OtherRunSolution.x).value

----------------------------------------------------------------------------
(* Properties of the recorded waveforms *)

\* the circuit holds one capacitor and besides it resistors only, all of
\* valid parameters, each call having stored an element of its own
SourceFree ==
    /\ calls = Cardinality(DOMAIN bipoles)
    /\ Cardinality({name \in DOMAIN bipoles : bipoles[name].behaviour.kind = "Capacitor"}) = 1
    /\ \A name \in DOMAIN bipoles :
          /\ bipoles[name].behaviour.kind \in {"Capacitor", "Resistor"}
          /\ ValidParameters(bipoles[name].behaviour)

(* C22: a capacitor in a circuit without source, discharging through        *)
(* resistors only: the magnitude of its recorded voltage never increases    *)
(* from one step to the next, and at step 0 it is at most that of the       *)
(* initial voltage.                                                         *)
C22_PassiveCapacitorNeverGains ==
    (pc \notin {"idle", "panicked"} /\ SourceFree) =>
       \A name \in DOMAIN bipoles : \A s \in 0..(n_steps - 1) :
          (bipoles[name].behaviour.kind = "Capacitor" /\ Recorded(name, s)) =>
             RLeq(RAbs(Drop(name, s)), RAbs(CapacitorStateBefore(name, s)))

\* a capacitor over a resistor has lost voltage in each of two steps
C22_Witness ==
    /\ pc = "returned"
    /\ SourceFree
    /\ n_steps = 2
    /\ \E name \in DOMAIN bipoles :
          /\ bipoles[name].behaviour.kind = "Capacitor"
          /\ Positive(Drop(name, 1))
          /\ Positive(RSub(Drop(name, 0), Drop(name, 1)))
          /\ Positive(RSub(at_call[name].behaviour.current_voltage, Drop(name, 0)))

\* x >= 0 as f64 compares: false for NaN
NonNegative(x) == IsFinite(x) /\ x[1] >= 0

(* C23: for every resistor of every simulated circuit and every step s,     *)
(* currents[R][s] * (voltages[anode][s] - voltages[cathode][s]) >= 0.       *)
(* Stated for the runs whose outputs are all finite.                        *)
C23_ResistorPowerNonNegative ==
    (pc = "returned" /\ OutputsFinite) =>
       \A name \in DOMAIN bipoles : \A s \in 0..(n_steps - 1) :
          bipoles[name].behaviour.kind = "Resistor" =>
             NonNegative(RMul(out.currents[name][s], Drop(name, s)))

\* the same for the circuits whose parameters are all valid
C23_ValidResistorPowerNonNegative ==
    (pc = "returned" /\ AllParametersValid /\ OutputsFinite) =>
       \A name \in DOMAIN bipoles : \A s \in 0..(n_steps - 1) :
          bipoles[name].behaviour.kind = "Resistor" =>
             NonNegative(RMul(out.currents[name][s], Drop(name, s)))

----------------------------------------------------------------------------
(* Frame properties of simulate *)

\* the statements of simulate that hand an element to one of its hooks
StateHooks == {"solve_nonlinear", "update_op", "update_state"}

(* C24: the state of an element changes only inside update_state,           *)
(* update_operating_point and reset_operating_point: assembly and recording *)
(* leave every element as it was, update_state changes only dynamic         *)
(* elements, the operating point hooks change only nonlinear elements, no   *)
(* hook changes a terminal, and an element neither dynamic nor nonlinear is *)
(* after simulate what it was before.                                       *)
C24_StateChangesOnlyInHooks ==
    [][pc # "idle" =>
          /\ DOMAIN bipoles' = DOMAIN bipoles
          /\ pc \notin StateHooks => bipoles' = bipoles
          /\ \A name \in DOMAIN bipoles :
                /\ bipoles'[name].anode_id = bipoles[name].anode_id
                /\ bipoles'[name].catode_id = bipoles[name].catode_id
                /\ (pc = "update_state" /\ ~is_dynamic(bipoles[name].behaviour)) =>
                      bipoles'[name] = bipoles[name]
                /\ (pc \in {"solve_nonlinear", "update_op"}
                       /\ ~is_nonlinear(bipoles[name].behaviour)) =>
                      bipoles'[name] = bipoles[name]
                /\ (~is_dynamic(bipoles[name].behaviour)
                       /\ ~is_nonlinear(bipoles[name].behaviour)) =>
                      bipoles'[name] = at_call'[name]]_vars

\* simulate has returned: a dynamic element holds another state than at the
\* call, next to a resistor and a source
C24_Witness ==
    /\ pc = "returned"
    /\ n_steps = 2
    /\ \E name \in DOMAIN bipoles :
          /\ is_dynamic(bipoles[name].behaviour)
          /\ bipoles[name] # at_call[name]
    /\ \E name \in DOMAIN bipoles : bipoles[name].behaviour.kind = "Resistor"
    /\ \E name \in DOMAIN bipoles : ~is_dynamic(bipoles[name].behaviour)
                                    /\ bipoles[name].behaviour.kind # "Resistor"

(* C25: when an assembly starts, in every inner iteration of every step,   *)
(* the first of the simulation included, every entry of A and b is zero:    *)
(* the system solved in an iteration holds the stamps of that iteration     *)
(* and nothing left by an earlier iteration or step.                        *)
C25_AssemblyStartsFromZero ==
    /\ pc = "fill" =>
          /\ matrix = ZeroMatrix(unknowns)
          /\ sources = ZeroVector(unknowns)
    /\ pc = "solve" => SumOfStamps(DOMAIN bipoles)

\* the assembly of a later inner iteration of the second step is about to start
C25_Witness ==
    /\ pc = "fill"
    /\ step = 1
    /\ iteration = 2
    /\ \E name \in DOMAIN bipoles :
          /\ IsDiode(name)
          /\ IsFinite(bipoles[name].behaviour.current_v)
          /\ bipoles[name].behaviour.current_v # Rat(9, 10)

----------------------------------------------------------------------------
(* Transients: the circuit of test_dynamic and three more with one dynamic  *)
(* element                                                                   *)

\* the steps of one simulate call on them
MaxCallSteps == 3

test_dynamic ==
    << <<VoltageSource(Rat(10, 1)), 1, 0, "V">>,
       <<Resistor(Rat(5000, 1)), 2, 1, "R1">>,
       <<Capacitor(Rat(1, 50000), Zero), 2, 0, "C1">> >>

\* test_dynamic with the capacitor charged to 2.5 V
test_dynamic_precharged ==
    << <<VoltageSource(Rat(10, 1)), 1, 0, "V">>,
       <<Resistor(Rat(5000, 1)), 2, 1, "R1">>,
       <<Capacitor(Rat(1, 50000), Rat(5, 2)), 2, 0, "C1">> >>

\* an inductor carrying 1 A closed on a resistor
inductor_loop ==
    << <<Inductor(One, One), 1, 0, "L">>,
       <<Resistor(One), 1, 0, "R">> >>

\* a capacitor charged to 1 V closed on a resistor
capacitor_loop ==
    << <<Capacitor(One, One), 1, 0, "C">>,
       <<Resistor(One), 1, 0, "R">> >>

ChargingTests == {test_dynamic, test_dynamic_precharged}

LoopTests == {inductor_loop, capacitor_loop}

TransientTests == ChargingTests \cup LoopTests

\* 0.01/2.0 as in test_dynamic, and ten times that
TransientTimeSteps == {Rat(1, 200), Rat(1, 20)}

AddTransientBipole ==
    /\ pc = "idle"
    /\ \E t \in TransientTests :
          /\ calls < Len(t)
          /\ Built(t, calls)
          /\ LET c == t[calls + 1] IN add_bipole(c[1], c[2], c[3], c[4])
    /\ calls' = calls + 1
    /\ UNCHANGED <<pc, ui, locals, trace, at_call, written>>

\* the first simulate call on the finished circuit
SimulateTransient ==
    /\ pc = "idle"
    /\ \E t \in ChargingTests : Built(t, Len(t))
    /\ \E dt \in TransientTimeSteps, n \in 1..MaxCallSteps :
          simulate(RMul(Rat(n, 1), dt), dt)

NextTransient ==
    \/ AddTransientBipole
    \/ SimulateTransient
    \/ StepBegin
    \/ ResetNonlinearOp
    \/ Clear
    \/ Fill
    \/ SolveStep
    \/ UpdateNonlinearOp
    \/ RecordCurrents
    \/ RecordVoltages
    \/ UpdateState
    \/ FinalClear
    \/ Return

SpecTransient == InitTests /\ [][NextTransient]_vars

\* the circuit simulate was called on is the one test t builds
CalledOn(t) ==
    /\ pc # "idle"
    /\ DOMAIN at_call = {t[j][4] : j \in 1..Len(t)}
    /\ \A j \in 1..Len(t) : at_call[t[j][4]] = Bipole(t[j][2], t[j][3], t[j][1])

----------------------------------------------------------------------------
(* Two simulate calls in a row on the same circuit. The arguments are       *)
(* numbers of the floating-point format of SignificandBits bits: a timestep *)
(* of the format, and for n timesteps the number of the format nearest to   *)
(* n * timestep, as the f64 written 4.3 is the one nearest to 43 * 0.1.     *)

\* the steps asked of one of the two calls
MaxRepeatedSteps == 2

FormatTimeSteps == {Rat(3, 4), Half}

Nearest(n, dt) == Round(RMul(Rat(n, 1), dt))

\* (simulationtime_sec/timestep_sec) as usize, the quotient rounded
StepsInFormat(T, dt) == AsUsize(Round(RDiv(T, dt)))

\* what the earlier calls returned, and the circuits they left
Returned == {w \in written : w[1] = "returned"}

simulate_in_format(simulationtime_sec_, timestep_sec_, earlier) ==
    /\ simulationtime_sec' = simulationtime_sec_
    /\ timestep_sec' = timestep_sec_
    /\ n_steps' = StepsInFormat(simulationtime_sec_, timestep_sec_)
    /\ out' = [currents |-> [name \in DOMAIN bipoles |-> ZeroVector(n_steps')],
               node_voltages |-> [node \in nodes |-> ZeroVector(n_steps')]]
    /\ matrix' = ZeroMatrix(unknowns)
    /\ sources' = ZeroVector(unknowns)
    /\ voltage_bipole_to_current_idx' \in IndexMaps
    /\ step' = 0
    /\ pc' = "loop"
    /\ at_call' = bipoles
    /\ written' = earlier
    /\ trace' = <<>>
    /\ UNCHANGED <<circuit, calls, ui, sol, n_iterations, iteration>>

\* the first call on the finished circuit
SimulateFirst ==
    /\ pc = "idle"
    /\ \E t \in LoopTests : Built(t, Len(t))
    /\ \E dt \in FormatTimeSteps, n \in 1..(2 * MaxRepeatedSteps) :
          simulate_in_format(Nearest(n, dt), dt, {})

\* a second call on the same circuit, with the timestep of the first
SimulateAgain ==
    /\ pc = "returned"
    /\ Returned = {}
    /\ \E n \in 1..MaxRepeatedSteps :
          simulate_in_format(Nearest(n, timestep_sec), timestep_sec,
                             {<<"returned", [simulationtime_sec |-> simulationtime_sec,
                                             n_steps |-> n_steps,
                                             out |-> out,
                                             bipoles |-> bipoles]>>})

NextRepeated ==
    \/ AddTransientBipole
    \/ SimulateFirst
    \/ SimulateAgain
    \/ StepBegin
    \/ ResetNonlinearOp
    \/ Clear
    \/ Fill
    \/ SolveStep
    \/ UpdateNonlinearOp
    \/ RecordCurrents
    \/ RecordVoltages
    \/ UpdateState
    \/ FinalClear
    \/ Return

SpecRepeated == InitTests /\ [][NextRepeated]_vars

First == (CHOOSE w \in Returned : TRUE)[2]

(* C26: for a circuit without time-dependent sources the output of          *)
(* simulate(n1*dt, dt) followed by simulate(n2*dt, dt), concatenated, is    *)
(* the output of one simulate((n1 + n2)*dt, dt): the two calls together     *)
(* record as many steps as the one call.                                    *)
C26_TwoCallsRecordAsOneCall ==
    (pc = "returned" /\ Returned # {}) =>
       \A n1, n2 \in 1..MaxRepeatedSteps :
          (/\ First.simulationtime_sec = Nearest(n1, timestep_sec)
           /\ simulationtime_sec = Nearest(n2, timestep_sec)) =>
             First.n_steps + n_steps =
                StepsInFormat(Nearest(n1 + n2, timestep_sec), timestep_sec)

\* simulate does not restore the dynamic state: at its return a capacitor
\* stores the voltage and an inductor the current of the last step, and a
\* second call starts from the circuit the first one left
C26_StateCarriedOver ==
    /\ (pc = "returned" /\ n_steps > 0) =>
          \A name \in DOMAIN bipoles :
             /\ bipoles[name].behaviour.kind = "Capacitor" =>
                   bipoles[name].behaviour.current_voltage = Drop(name, n_steps - 1)
             /\ bipoles[name].behaviour.kind = "Inductor" =>
                   bipoles[name].behaviour.current_i = InductorStateBefore(name, n_steps)
    /\ (pc # "idle" /\ Returned # {}) => at_call = First.bipoles

\* a second call has returned from a state the first call had changed
C26_StateCarriedOverWitness ==
    /\ pc = "returned"
    /\ Returned # {}
    /\ n_steps = 2
    /\ \E name \in DOMAIN bipoles :
          /\ is_dynamic(bipoles[name].behaviour)
          /\ bipoles[name] # at_call[name]
          /\ First.n_steps = 2

----------------------------------------------------------------------------
(* The drawing program (main.rs): UiData and the commands of UiData::update *)
(* that place and delete bipoles and wires, set the ground and run the      *)
(* simulation. A command carries the ids its mode took from a click on      *)
(* what is drawn: a node, a bipole or a wire that exists when it is issued. *)

\* nodes, wires and RunSimulation commands of one session
MaxUiNodes == 4

MaxUiWires == 2

MaxUiRuns == 2

\* the component of PlaceMode that is placed here; which one it is has no
\* part in what run does before the simulation
UiKinds == {"resistor"}

\* PlacedBipole::new and BipoleFactory::make: the element with the value the
\* factory starts with
make(kind) ==
    CASE kind = "voltage source" -> VoltageSource(Rat(10, 1))
      [] kind = "current source" -> CurrentSource(Rat(1, 1000))
      [] kind = "capacitor" -> Capacitor(Rat(1, 50000), Zero)
      [] OTHER -> Resistor(Rat(10, 1))

\* &bipole.kind[0..1]
FirstLetter(kind) ==
    CASE kind = "voltage source" -> "v"
      [] kind = "resistor" -> "r"
      [] OTHER -> "c"

MapRemove(map, key) == [k \in DOMAIN map \ {key} |-> map[k]]

UiData_add_node(u) ==
    [u EXCEPT !.current_node_id = @ + 1,
              !.nodes = MapInsert(@, u.current_node_id + 1,
                                  [computed_id |-> u.current_node_id + 1])]

\* the positions are read with self.nodes.get(..).unwrap()
UiData_add_wire(u, node1_id, node2_id) ==
    [u EXCEPT !.current_wire_id = @ + 1,
              !.wires = MapInsert(@, u.current_wire_id + 1,
                                  [node1_id |-> node1_id, node2_id |-> node2_id])]

UiData_add_bipole(u, kind) ==
    LET withnodes == UiData_add_node(UiData_add_node(u))
        anode_id == u.current_node_id + 1
        catode_id == u.current_node_id + 2
        name == FirstLetter(kind) \o ToString(u.current_bipole_id + 1)
    IN  [withnodes EXCEPT
            !.current_bipole_id = @ + 1,
            !.placed_bipoles = MapInsert(@, name,
                                  [name |-> name, kind |-> kind,
                                   anode_node_id |-> anode_id,
                                   catode_node_id |-> catode_id])]

PlaceBipole ==
    /\ pc = "idle"
    /\ ui.current_node_id + 2 <= MaxUiNodes
    /\ \E kind \in UiKinds : ui' = UiData_add_bipole(ui, kind)
    /\ UNCHANGED <<circuit, calls, pc, locals, trace, at_call, written>>

\* WireMode: the wire starts on a clicked node and ends on a clicked node or
\* on a new node where the canvas was clicked
PlaceWire ==
    /\ pc = "idle"
    /\ ui.current_wire_id < MaxUiWires
    /\ \E node1_id \in DOMAIN ui.nodes :
          \/ \E node2_id \in DOMAIN ui.nodes :
                ui' = UiData_add_wire(ui, node1_id, node2_id)
          \/ /\ ui.current_node_id < MaxUiNodes
             /\ ui' = UiData_add_wire(UiData_add_node(ui), node1_id, ui.current_node_id + 1)
    /\ UNCHANGED <<circuit, calls, pc, locals, trace, at_call, written>>

DeleteBipole ==
    /\ pc = "idle"
    /\ \E name \in DOMAIN ui.placed_bipoles :
          LET bipole == ui.placed_bipoles[name]
          IN  ui' = [ui EXCEPT
                        !.nodes = MapRemove(MapRemove(@, bipole.anode_node_id),
                                            bipole.catode_node_id),
                        !.placed_bipoles = MapRemove(@, name)]
    /\ UNCHANGED <<circuit, calls, pc, locals, trace, at_call, written>>

DeleteWire ==
    /\ pc = "idle"
    /\ \E id \in DOMAIN ui.wires :
          LET wire == ui.wires[id]
          IN  ui' = [ui EXCEPT
                        !.nodes = MapRemove(MapRemove(@, wire.node1_id), wire.node2_id),
                        !.wires = MapRemove(@, id)]
    /\ UNCHANGED <<circuit, calls, pc, locals, trace, at_call, written>>

SetGround ==
    /\ pc = "idle"
    /\ \E id \in DOMAIN ui.nodes : ui' = [ui EXCEPT !.ground_id = Some(id)]
    /\ UNCHANGED <<circuit, calls, pc, locals, trace, at_call, written>>

\* the loop body with only the wire's first end given the id of the second
MergeWireEndOnly(nodes_, wire) ==
    [nodes_ EXCEPT ![wire.node1_id].computed_id = nodes_[wire.node2_id].computed_id]

\* UiData::run, the body of the loop over the wires: the nodes that carry
\* the id of the wire's first end are given the id of its second end
MergeWire(nodes_, wire) ==
    LET id1 == nodes_[wire.node1_id].computed_id
        id2 == nodes_[wire.node2_id].computed_id
    IN  IF id1 = id2 THEN nodes_
        ELSE [n \in DOMAIN nodes_ |->
                 IF nodes_[n].computed_id = id1
                 THEN [nodes_[n] EXCEPT !.computed_id = id2]
                 ELSE nodes_[n]]

\* UiData::run, the loop over the wires in the order given
RECURSIVE Merge(_, _, _)
Merge(nodes_, wires_, order) ==
    IF order = <<>> THEN nodes_
    ELSE Merge(MergeWire(nodes_, wires_[Head(order)]), wires_, Tail(order))

\* UiData::run, the loop over the nodes in the order given: the ids are
\* replaced by 0, 1, ... as they are met
RECURSIVE Renumber(_, _, _, _)
Renumber(nodes_, order, current_mapping, current_index) ==
    IF order = <<>> THEN nodes_
    ELSE LET n == Head(order)
             id == nodes_[n].computed_id
         IN  IF id \in DOMAIN current_mapping
             THEN Renumber([nodes_ EXCEPT ![n].computed_id = current_mapping[id]],
                           Tail(order), current_mapping, current_index)
             ELSE Renumber([nodes_ EXCEPT ![n].computed_id = current_index],
                           Tail(order), MapInsert(current_mapping, id, current_index),
                           current_index + 1)

\* a lookup of run's first part fails: self.nodes.get(..).unwrap() on the end
\* of a wire or on the ground
LookupFails ==
    \/ \E id \in DOMAIN ui.wires :
          ui.wires[id].node1_id \notin DOMAIN ui.nodes
          \/ ui.wires[id].node2_id \notin DOMAIN ui.nodes
    \/ ui.ground_id # None /\ ui.ground_id[1] \notin DOMAIN ui.nodes

\* circ dropped and none made yet
NoCircuit ==
    /\ bipoles' = <<>>
    /\ dynamic_bipoles' = {}
    /\ nonlinear_bipoles' = {}
    /\ nodes' = {}
    /\ voltage_bipoles' = {}
    /\ ground_id' = 0
    /\ calls' = 0
    /\ simulationtime_sec' = Zero
    /\ timestep_sec' = Zero
    /\ n_steps' = 0
    /\ step' = 0
    /\ out' = [currents |-> <<>>, node_voltages |-> <<>>]
    /\ matrix' = <<>>
    /\ sources' = <<>>
    /\ voltage_bipole_to_current_idx' = <<>>
    /\ sol' = <<>>
    /\ n_iterations' = 0
    /\ iteration' = 0
    /\ trace' = <<>>
    /\ at_call' = <<>>
    /\ written' = {}

\* UiData::run up to Circuit::new(ground_id)
RunSimulation ==
    /\ pc = "idle"
    /\ Len(ui.runs) < MaxUiRuns
    /\ IF LookupFails
       THEN /\ pc' = "panicked"
            /\ UNCHANGED <<circuit, calls, ui, locals, trace, at_call, written>>
       ELSE /\ \E wire_order \in IterationOrders(DOMAIN ui.wires),
                  node_order \in IterationOrders(DOMAIN ui.nodes) :
                  ui' = [ui EXCEPT
                            !.nodes = Renumber(Merge(ui.nodes, ui.wires, wire_order),
                                               node_order, <<>>, 0),
                            !.runs = Append(@, ui.current_node_id)]
            /\ ground_id' = IF ui.ground_id = None THEN 0
                            ELSE ui'.nodes[ui.ground_id[1]].computed_id
            /\ pc' = "add_placed"
            /\ UNCHANGED <<bipoles, dynamic_bipoles, nonlinear_bipoles, nodes, voltage_bipoles,
                           calls, locals, trace, at_call, written>>

\* UiData::run, one turn of the loop over the placed bipoles
AddPlaced ==
    /\ pc = "add_placed"
    /\ \E name \in DOMAIN ui.placed_bipoles \ DOMAIN bipoles :
          LET bipole == ui.placed_bipoles[name]
          IN  IF /\ bipole.anode_node_id \in DOMAIN ui.nodes
                 /\ bipole.catode_node_id \in DOMAIN ui.nodes
              THEN /\ add_bipole(make(bipole.kind),
                                 ui.nodes[bipole.anode_node_id].computed_id,
                                 ui.nodes[bipole.catode_node_id].computed_id,
                                 bipole.name)
                   /\ calls' = calls + 1
                   /\ UNCHANGED <<pc, ui, locals, trace, at_call, written>>
              ELSE /\ pc' = "panicked"
                   /\ UNCHANGED <<circuit, calls, ui, locals, trace, at_call, written>>

\* the simulation time and the time step typed into RunMode's window: half a
\* time step, for which simulate takes no step
UiRunTimes == {<<Half, One>>}

\* UiData::run, circ.simulate(sim_time, t_step)
RunSimulate ==
    /\ pc = "add_placed"
    /\ DOMAIN ui.placed_bipoles \subseteq DOMAIN bipoles
    /\ \E a \in UiRunTimes : simulate(a[1], a[2])

\* UiData::run returns: circ is dropped
RunReturn ==
    /\ pc = "returned"
    /\ pc' = "idle"
    /\ NoCircuit
    /\ UNCHANGED ui

NextUi ==
    \/ PlaceBipole
    \/ PlaceWire
    \/ DeleteBipole
    \/ DeleteWire
    \/ SetGround
    \/ RunSimulation
    \/ AddPlaced
    \/ RunSimulate
    \/ RunReturn
    \/ Return

SpecUi == InitTests /\ [][NextUi]_vars

\* run has handed the circuit to the core
HandedOver == pc \in {"loop", "returned"}

\* the nodes one wire away from those of S, and S
Adjacent(S) ==
    S \cup {n \in DOMAIN ui.nodes :
              \E id \in DOMAIN ui.wires :
                 \/ ui.wires[id].node1_id \in S /\ ui.wires[id].node2_id = n
                 \/ ui.wires[id].node2_id \in S /\ ui.wires[id].node1_id = n}

RECURSIVE Reach(_)
Reach(S) == IF Adjacent(S) = S THEN S ELSE Reach(Adjacent(S))

\* a path of wires leads from node a to node b
Connected(a, b) == b \in Reach({a})

\* what the claim says of the circuit in the core's hands
CanonicalIds ==
    /\ \A a, b \in DOMAIN ui.nodes :
          ui.nodes[a].computed_id = ui.nodes[b].computed_id <=> Connected(a, b)
    /\ DOMAIN bipoles = DOMAIN ui.placed_bipoles
    /\ \A name \in DOMAIN bipoles :
          /\ bipoles[name].anode_id =
                ui.nodes[ui.placed_bipoles[name].anode_node_id].computed_id
          /\ bipoles[name].catode_id =
                ui.nodes[ui.placed_bipoles[name].catode_node_id].computed_id
    /\ Terminals(bipoles) = 0..(Cardinality(Terminals(bipoles)) - 1)
    /\ ground_id \in Terminals(bipoles)

C28_NodeIdsAreKeys ==
    /\ \A id \in DOMAIN ui.wires :
          /\ ui.wires[id].node1_id \in DOMAIN ui.nodes
          /\ ui.wires[id].node2_id \in DOMAIN ui.nodes
    /\ \A name \in DOMAIN ui.placed_bipoles :
          /\ ui.placed_bipoles[name].anode_node_id \in DOMAIN ui.nodes
          /\ ui.placed_bipoles[name].catode_node_id \in DOMAIN ui.nodes
    /\ ui.ground_id # None => ui.ground_id[1] \in DOMAIN ui.nodes

=============================================================================
